---- MODULE Spec2Model ----
(***************************************************************************)
(* Beer-Manager (Raspberry Pi edition): the ORDER session, its CSV bill    *)
(* and the sensor-triggered capture threads of app2.py, with the helpers   *)
(* of utils/csv_utils.py and models/inference.py.                          *)
(*                                                                         *)
(* One Tk main loop (the UI task) runs the button handlers and the         *)
(* root.after callbacks; every sensor edge starts a daemon thread running  *)
(* _capture_and_predict.  A modal message box runs a nested event loop:    *)
(* it holds the input grab (no button, no tab can be clicked) but timer    *)
(* callbacks, hence root.after(0, ...) callbacks, still run.               *)
(*                                                                         *)
(* File names are modelled by the "_"-separated parts of their stem after  *)
(* the literal "bill": <<table, "tmp">> is never kept, <<table, start,     *)
(* date>> is an open bill (4 parts in the code), <<table, start, end,      *)
(* date>> a sealed one (5 parts).  os.rename has the semantics of the      *)
(* target platform, Linux: an existing target is replaced silently.        *)
(***************************************************************************)
EXTENDS Integers, Sequences, FiniteSets, Bags, TLC

\* ----------------------------------------------------------------- bounds
MaxClock == 1        \* minutes the wall clock can show: 0..MaxClock
MaxRows == 2         \* rows of data/menu.csv
MaxQty == 1          \* largest quantity of one item
MaxLines == 2        \* data rows in all bill files together
MaxSessions == 2     \* sessions started in one run
NumWorkers == 2      \* capture threads alive at once
MaxAfter == 1        \* root.after callbacks waiting
MaxEdits == 1        \* edits of the menu on the ADMIN tab in one run

\* ------------------------------------------------------ program constants
TABLE_ID == 1                  \* table_id_var, kept at its initial value
TODAY == 0                     \* the date part of every bill name of one run
TMP == -1                      \* the session id "tmp" of the temporary bill
NoEnd == -1                    \* the unmatched optional end group of BILL_RE
UNKNOWN_NAME == "U"
MappedNames == {"B"}
ItemNames == {"A", "B", "U"}
Prices == {10, 20}
None == "None"                 \* no item / no message box

VARIABLES
    menu_csv,     \* rows of data/menu.csv: <<[name, price], ...>>
    now,          \* the wall clock, in minutes
    tab,          \* the selected notebook tab
    order_state,  \* the dict order_state; "qtys" is a reference into heap
    heap,         \* the qtys dict objects that are still referenced, by id
    nSessions,    \* sessions started so far (the id of the newest qtys dict)
    nEdits,       \* menu edits made so far
    files,        \* data/bills: stem -> rows of the file
    view,         \* what build_order put on the ORDER tab last: "start" (the
                  \* Start Session button) or "session" (the session's widgets)
    gpio_btn,     \* <<>> (None) or <<the add_item closure on_blocked passes on>>;
                  \* a closure's "alive" tells whether its Treeview still exists
    pin,          \* the sensor's Button in time: "bouncing": an edge was passed
                  \* on less than bounce_time ago; "fresh": a capture was
                  \* classified and no time has passed since.  Only the steps
                  \* that follow time (DebouncedEdge, TimedCapture, Elapse)
                  \* change it
    cap_lock,     \* threading.Lock: TRUE when held
    thr,          \* the capture threads alive, a bag of [pc, fn]: position
                  \* in _capture_and_predict ("start", "capture": in the try
                  \* block, "scheduled": root.after has returned, "finally":
                  \* at the finally block otherwise) and its add_fn argument
    afterQ,       \* callbacks scheduled with root.after(0, ...), in order
    uiPc,         \* "idle": main loop; "finish_dialog": inside finish_session's
                  \* message box
    last          \* what the step taken last did when it is more than the
                  \* plain success of a handler: handler, item, outcome and
                  \* the message box it showed

vars == <<menu_csv, now, tab, order_state, heap, nSessions, nEdits, files,
          view, gpio_btn, pin, cap_lock, thr, afterQ, uiPc, last>>

\* ------------------------------------------------------------ csv_utils
\* the names of the rows, in order of first appearance
RECURSIVE RowNames(_)
RowNames(rows) ==
    IF rows = <<>> THEN {} ELSE {rows[1].name} \cup RowNames(Tail(rows))

\* load_menu: {name: price}; a later row of the same name wins
load_menu ==
    [n \in RowNames(menu_csv) |->
        LET idx == {i \in 1..Len(menu_csv) : menu_csv[i].name = n}
            lastI == CHOOSE i \in idx : \A j \in idx : j <= i
        IN  menu_csv[lastI].price]

HEADER == [item |-> "item", qty |-> -1, unit_price |-> -1, total_line |-> -1]

Row(item, qty, unit_price) ==
    [item |-> item, qty |-> qty, unit_price |-> unit_price,
     total_line |-> qty * unit_price]

\* init_bill: open(path, "w") truncates or creates the file, writes the header
init_bill(fs, path) ==
    [p \in DOMAIN fs \cup {path} |-> IF p = path THEN <<HEADER>> ELSE fs[p]]

\* os.rename / Path.rename on Linux: the target is replaced if it exists
os_rename(fs, src, dst) ==
    [p \in (DOMAIN fs \ {src}) \cup {dst} |-> IF p = dst THEN fs[src] ELSE fs[p]]

\* append_bill: a quantity of 0 writes nothing; open(path, "a") creates the
\* file when it is missing
append_bill(fs, path, item, qty, unit_price) ==
    IF qty = 0
    THEN fs
    ELSE [p \in DOMAIN fs \cup {path} |->
            IF p = path
            THEN (IF path \in DOMAIN fs THEN fs[path] ELSE <<>>)
                     \o <<Row(item, qty, unit_price)>>
            ELSE fs[p]]

RECURSIVE SumTotalLine(_)
SumTotalLine(rows) ==
    IF rows = <<>> THEN 0 ELSE rows[1].total_line + SumTotalLine(Tail(rows))

KeyError == -1

\* bill_total: csv.DictReader takes the first row as the field names; a row
\* read under field names without "total_line" raises KeyError
bill_total(rows) ==
    IF rows = <<>> THEN 0
    ELSE IF rows[1] = HEADER THEN SumTotalLine(Tail(rows))
    ELSE IF Len(rows) = 1 THEN 0
    ELSE KeyError

\* parse_bill_name / BILL_RE on the parts of the stem
parse_bill_name(stem) ==
    IF Len(stem) = 3
    THEN [table |-> stem[1], start |-> stem[2], end |-> NoEnd, date |-> stem[3]]
    ELSE IF Len(stem) = 4
    THEN [table |-> stem[1], start |-> stem[2], end |-> stem[3], date |-> stem[4]]
    ELSE [table |-> NoEnd, start |-> NoEnd, end |-> NoEnd, date |-> NoEnd]

\* the data rows in all the files of data/bills
RECURSIVE DataRowsIn(_, _)
DataRowsIn(fs, paths) ==
    IF paths = {} THEN 0
    ELSE LET p == CHOOSE q \in paths : TRUE
         IN  Len(SelectSeq(fs[p], LAMBDA r : r # HEADER))
                 + DataRowsIn(fs, paths \ {p})

DataRows == DataRowsIn(files, DOMAIN files)

\* ---------------------------------------------------------------- state
Inactive == [active |-> FALSE]

Step(op, arg, res, box) == [op |-> op, arg |-> arg, res |-> res, dialog |-> box]

NoStep == Step("none", None, None, None)

\* a Button no edge of which is younger than bounce_time
PinIdle == [bouncing |-> FALSE, fresh |-> FALSE]

Init ==
    /\ menu_csv \in {<<>>,
                     <<[name |-> "A", price |-> 10], [name |-> "B", price |-> 20]>>,
                     <<[name |-> "U", price |-> 20]>>}
    /\ now = 0
    /\ tab = "ORDER"
    /\ order_state = Inactive
    /\ heap = <<>>
    /\ nSessions = 0
    /\ nEdits = 0
    /\ files = <<>>
    /\ view = "start"
    /\ gpio_btn = <<>>
    /\ pin = PinIdle
    /\ cap_lock = FALSE
    /\ thr = EmptyBag
    /\ afterQ = <<>>
    /\ uiPc = "idle"
    /\ last = NoStep

\* ------------------------------------------------------------ ORDER tab
\* build_order, mutated: the prices are read from data/menu.csv as it is now
session_menu_reloaded(os) ==
    [n \in DOMAIN os.menu |->
        IF n \in DOMAIN load_menu THEN load_menu[n] ELSE os.menu[n]]

\* build_order: menu = order_state["menu"], the dict start_session loaded
session_menu(os) == os.menu

\* the variables build_order's nested functions close over; alive: the
\* Treeview "tree" of that call of build_order has not been destroyed
Closure(os, alive) ==
    [menu |-> session_menu(os), qtys |-> os.qtys, bill |-> os.bill, alive |-> alive]

\* the closure behind the buttons of the ORDER view shown now
ViewClosure == Closure(order_state, TRUE)

\* the qtys dicts something still refers to: order_state, the sensor's
\* handler, a thread's argument, a scheduled callback
Refs ==
    (IF order_state.active THEN {order_state.qtys} ELSE {})
    \cup {gpio_btn[i].qtys : i \in 1..Len(gpio_btn)}
    \cup {t.fn.qtys : t \in BagToSet(thr)}
    \cup {afterQ[i].fn.qtys : i \in 1..Len(afterQ)}

\* CPython frees a dict when its last reference goes
Collect(h, refs) == [i \in DOMAIN h \cap refs |-> h[i]]

\* build_order, mutated: the old widgets are left alone
Undestroyed(c) == c

\* w.destroy() for the children of order_frame: the Treeview of every closure
\* made so far is gone
Destroyed(c) == [c EXCEPT !.alive = FALSE]

DestroyedThread(t) == [t EXCEPT !.fn = Destroyed(@)]

\* build_order, mutated: the Start Session button is packed in both branches
shown_view_start(os) == "start"

\* build_order: "if not order_state["active"]" packs the Start Session button
\* and returns; otherwise the widgets of the session are packed
shown_view(os) == IF ~os.active THEN "start" ELSE "session"

\* build_order for the order_state os: the old widgets are destroyed; with a
\* session a new Treeview is made and the sensor is bound if it is not yet,
\* without one the sensor is closed
build_order(os) ==
    /\ view' = shown_view(os)
    /\ pin' = IF os.active <=> (gpio_btn = <<>>) THEN PinIdle ELSE pin
    /\ thr' = BagOfAll(DestroyedThread, thr)
    /\ afterQ' = [i \in 1..Len(afterQ) |-> [afterQ[i] EXCEPT !.fn = Destroyed(@)]]
    /\ gpio_btn' = IF ~os.active THEN <<>>
                   ELSE IF gpio_btn = <<>> THEN <<Closure(os, TRUE)>>
                   ELSE <<Destroyed(gpio_btn[1])>>

\* how add_item(n) of closure c ends: qtys[n] raises KeyError for a name that
\* is no key; tree.set raises TclError on a destroyed Treeview
add_item_res(c, n) ==
    IF n \notin DOMAIN heap[c.qtys] THEN "KeyError"
    ELSE IF ~c.alive THEN "TclError"
    ELSE "ok"

\* add_item, mutated: qtys[n] = qtys.get(n, 0) + 1 makes the missing key
add_item_new_key(h, fs, c, n) ==
    IF n \notin DOMAIN h[c.qtys]
    THEN [heap |-> [h EXCEPT ![c.qtys] = (n :> 1) @@ @], files |-> fs]
    ELSE [heap |-> [h EXCEPT ![c.qtys][n] = @ + 1],
          files |-> IF ~c.alive
                    THEN fs
                    ELSE append_bill(fs, c.bill, n, h[c.qtys][n] + 1, c.menu[n])]

\* add_item, mutated: no append_bill
add_item_unbilled(h, fs, c, n) ==
    IF n \notin DOMAIN h[c.qtys]
    THEN [heap |-> h, files |-> fs]
    ELSE [heap |-> [h EXCEPT ![c.qtys][n] = @ + 1], files |-> fs]

\* add_item(n) of closure c on the dicts h and the files fs:
\* qtys[n] += 1; tree.set; append_bill; update_total
add_item(h, fs, c, n) ==
    IF n \notin DOMAIN h[c.qtys]
    THEN [heap |-> h, files |-> fs]
    ELSE [heap |-> [h EXCEPT ![c.qtys][n] = @ + 1],
          files |-> IF ~c.alive
                    THEN fs
                    ELSE append_bill(fs, c.bill, n, h[c.qtys][n] + 1, c.menu[n])]

\* sub_item, mutated: no "if qtys[n] == 0: return"
sub_item_unguarded(h, fs, c, n) ==
    [heap |-> [h EXCEPT ![c.qtys][n] = @ - 1],
     files |-> append_bill(fs, c.bill, n, h[c.qtys][n] - 1, c.menu[n])]

\* sub_item(n) of closure c
sub_item(h, fs, c, n) ==
    IF h[c.qtys][n] = 0
    THEN [heap |-> h, files |-> fs]
    ELSE [heap |-> [h EXCEPT ![c.qtys][n] = @ - 1],
          files |-> append_bill(fs, c.bill, n, h[c.qtys][n] - 1, c.menu[n])]

\* the model's bounds on one more add_item(n) through closure c
CanAdd(c, n) ==
    n \in DOMAIN heap[c.qtys] =>
        /\ heap[c.qtys][n] < MaxQty
        /\ c.alive => DataRows < MaxLines

\* "if not menu" of start_session, mutated: never true
menu_empty_never(menu) == FALSE

\* "if not menu" of start_session
menu_empty(menu) == DOMAIN menu = {}

\* the Start Session button
start_session ==
    /\ uiPc = "idle" /\ tab = "ORDER" /\ view = "start"
    /\ UNCHANGED <<menu_csv, now, tab, nEdits, cap_lock, uiPc>>
    /\ IF menu_empty(load_menu)
       THEN /\ last' = Step("start_session", None, "EmptyMenu", "Empty menu")
            /\ UNCHANGED <<order_state, heap, nSessions, files, gpio_btn, view, pin, thr,
                           afterQ>>
       ELSE /\ nSessions < MaxSessions
            /\ LET tmp == <<TABLE_ID, TMP>>
                   bill == <<TABLE_ID, now, TODAY>>
                   os == [active |-> TRUE, menu |-> load_menu,
                          qtys |-> nSessions + 1, bill |-> bill, start |-> now]
               IN  /\ files' = os_rename(init_bill(files, tmp), tmp, bill)
                   /\ order_state' = os
                   /\ build_order(os)
                   /\ nSessions' = nSessions + 1
                   /\ heap' = Collect([i \in DOMAIN heap \cup {nSessions + 1} |->
                                          IF i = nSessions + 1
                                          THEN [n \in DOMAIN load_menu |-> 0]
                                          ELSE heap[i]], Refs')
            /\ last' = NoStep

\* the sealed name, mutated: the end time is put before the start time
sealed_name_end_first(bill, end) ==
    SubSeq(bill, 1, 1) \o <<end>> \o SubSeq(bill, 2, Len(bill))

\* "_".join(parts[:3] + [end] + parts[3:]): parts[0] is the literal "bill"
sealed_name(bill, end) ==
    SubSeq(bill, 1, 2) \o <<end>> \o SubSeq(bill, 3, Len(bill))

\* the Finish Session button, up to its message box
finish_session ==
    /\ uiPc = "idle" /\ tab = "ORDER" /\ view = "session"
    /\ LET bill == order_state.bill
       IN  files' = IF Len(bill) = 3
                    THEN os_rename(files, bill, sealed_name(bill, now))
                    ELSE files
    /\ uiPc' = "finish_dialog"
    /\ last' = Step("finish_session", None, "renamed", "Session finished")
    /\ UNCHANGED <<menu_csv, now, tab, order_state, heap, nSessions, nEdits,
                   gpio_btn, view, pin, cap_lock, thr, afterQ>>

\* finish_session after its message box is closed
finish_session_end ==
    /\ uiPc = "finish_dialog"
    /\ order_state' = Inactive
    /\ build_order(Inactive)
    /\ uiPc' = "idle"
    /\ last' = Step("finish_session", None, "ok", None)
    /\ UNCHANGED <<menu_csv, now, tab, nSessions, nEdits, files, cap_lock>>
    /\ heap' = Collect(heap, Refs')

\* a "+" button
AddButton(n) ==
    /\ uiPc = "idle" /\ tab = "ORDER" /\ view = "session"
    /\ n \in DOMAIN order_state.menu
    /\ CanAdd(ViewClosure, n)
    /\ LET r == add_item(heap, files, ViewClosure, n)
       IN  heap' = r.heap /\ files' = r.files
    /\ last' = NoStep
    /\ UNCHANGED <<menu_csv, now, tab, order_state, nSessions, nEdits,
                   gpio_btn, view, pin, cap_lock, thr, afterQ, uiPc>>

\* a "-" button
SubButton(n) ==
    /\ uiPc = "idle" /\ tab = "ORDER" /\ view = "session"
    /\ n \in DOMAIN order_state.menu
    /\ heap[order_state.qtys][n] > 1 => DataRows < MaxLines
    /\ LET r == sub_item(heap, files, ViewClosure, n)
       IN  heap' = r.heap /\ files' = r.files
    /\ last' = IF heap[order_state.qtys][n] = 0
               THEN Step("sub_item", n, "noop", None)
               ELSE NoStep
    /\ UNCHANGED <<menu_csv, now, tab, order_state, nSessions, nEdits,
                   gpio_btn, view, pin, cap_lock, thr, afterQ, uiPc>>

\* a "+" (d = 1) or "-" (d = -1) button whose append_bill raises OSError at
\* open(path, "a"): the quantity is already assigned and the Treeview already
\* set; nothing catches the exception, Tk prints it
ButtonOSError(n, d) ==
    /\ uiPc = "idle" /\ tab = "ORDER" /\ view = "session"
    /\ n \in DOMAIN order_state.menu
    /\ LET q == heap[order_state.qtys][n] + d
       IN  /\ q > 0 /\ q <= MaxQty
           /\ heap' = [heap EXCEPT ![order_state.qtys][n] = q]
    /\ last' = Step(IF d = 1 THEN "add_item" ELSE "sub_item", n, "OSError", None)
    /\ UNCHANGED <<menu_csv, now, tab, order_state, nSessions, nEdits, files,
                   gpio_btn, view, pin, cap_lock, thr, afterQ, uiPc>>

\* model.predict: a mapped class name, or UNKNOWN_NAME below the threshold
Predictions == MappedNames \cup {UNKNOWN_NAME}

\* the Upload Beer Image button, once a file is chosen
upload_image ==
    /\ uiPc = "idle" /\ tab = "ORDER" /\ view = "session"
    /\ \/ /\ last' = Step("upload_image", None, "unreadable", "Error")
          /\ UNCHANGED <<heap, files>>
       \/ \E name \in Predictions :
            /\ CanAdd(ViewClosure, name)
            /\ LET r == add_item(heap, files, ViewClosure, name)
               IN  heap' = r.heap /\ files' = r.files
            /\ last' = LET res == add_item_res(ViewClosure, name)
                       IN  Step("upload_image", name, res,
                                IF res = "ok" THEN "Added" ELSE None)
    /\ UNCHANGED <<menu_csv, now, tab, order_state, nSessions, nEdits,
                   gpio_btn, view, pin, cap_lock, thr, afterQ, uiPc>>

\* selecting another notebook tab; selecting ORDER redraws it
SelectTab(t) ==
    /\ uiPc = "idle" /\ t # tab
    /\ tab' = t
    /\ IF t = "ORDER"
       THEN build_order(order_state)
       ELSE UNCHANGED <<gpio_btn, view, pin, thr, afterQ>>
    /\ last' = NoStep
    /\ UNCHANGED <<menu_csv, now, order_state, heap, nSessions, nEdits, files,
                   cap_lock, uiPc>>

\* ------------------------------------------------------------ ADMIN tab
\* refresh() after an edit: save_menu_rows rewrites data/menu.csv
AdminEdit(rows) ==
    /\ uiPc = "idle" /\ tab = "ADMIN"
    /\ nEdits < MaxEdits
    /\ nEdits' = nEdits + 1
    /\ menu_csv' = rows
    /\ last' = NoStep
    /\ UNCHANGED <<now, tab, order_state, heap, nSessions, files, gpio_btn, view, pin,
                   cap_lock, thr, afterQ, uiPc>>

add_row(n, p) ==
    /\ Len(menu_csv) < MaxRows
    /\ AdminEdit(Append(menu_csv, [name |-> n, price |-> p]))

edit_price(i, p) ==
    /\ i \in 1..Len(menu_csv)
    /\ AdminEdit([menu_csv EXCEPT ![i].price = p])

delete_row(i) ==
    /\ i \in 1..Len(menu_csv)
    /\ AdminEdit(SubSeq(menu_csv, 1, i - 1) \o SubSeq(menu_csv, i + 1, Len(menu_csv)))

\* ------------------------------------------------- sensor and capture
UnchangedByThread ==
    UNCHANGED <<menu_csv, now, tab, order_state, nSessions, nEdits, files,
                gpio_btn, view, uiPc>>

Thread(pc, fn) == [pc |-> pc, fn |-> fn]

One(t) == SetToBag({t})

\* the body of on_blocked: a thread is started with add_item
start_thread ==
    /\ gpio_btn # <<>>
    /\ BagCardinality(thr) < NumWorkers
    /\ thr' = thr (+) One(Thread("start", gpio_btn[1]))
    /\ last' = NoStep
    /\ UNCHANGED <<heap, cap_lock, afterQ>>
    /\ UnchangedByThread

\* on_blocked: the beam is blocked and the Button passes the edge on; when
\* that was is not followed
on_blocked == start_thread /\ UNCHANGED pin

\* on_blocked, time followed: bounce_time=GPIO_BOUNCE_TIME makes the Button
\* ignore the edges that come less than bounce_time after one it passed on
DebouncedEdge ==
    /\ ~pin.bouncing
    /\ start_thread
    /\ pin' = [pin EXCEPT !.bouncing = TRUE]

\* cap_lock.acquire, mutated: a plain flag set without the test
try_acquire_untested(locked) == TRUE

\* cap_lock.acquire(blocking=False): TRUE when the lock was free and is taken
try_acquire(locked) == ~locked

\* the busy path, mutated: the return sits inside the try, so that the finally
\* block releases the lock of the thread that holds it
acquire_busy_releases(t) ==
    /\ thr' = thr (-) One(t)
    /\ cap_lock' = FALSE

\* cap_lock.acquire(blocking=False) fails: the thread t returns at once
acquire_busy(t) ==
    /\ thr' = thr (-) One(t)
    /\ cap_lock' = cap_lock

\* _capture_and_predict, first statement
Acquire(t) ==
    /\ t.pc = "start"
    /\ UNCHANGED <<afterQ, pin>>
    /\ UnchangedByThread
    /\ IF ~try_acquire(cap_lock)
       THEN /\ acquire_busy(t)
            /\ last' = Step("acquire", None, "skipped", None)
       ELSE /\ cap_lock' = TRUE
            /\ thr' = (thr (-) One(t)) (+) One(Thread("capture", t.fn))
            /\ last' = NoStep
    /\ heap' = Collect(heap, Refs')

CaptureOutcomes == {"NoFrame", "Raised"} \cup Predictions

\* the try block, mutated: no "if name == UNKNOWN_NAME: return"
schedule_unknown_too(t, out) ==
    IF out \in Predictions
    THEN Append(afterQ, [fn |-> t.fn, name |-> out])
    ELSE afterQ

\* what the try block of thread t schedules for an outcome
schedule(t, out) ==
    IF out \in MappedNames
    THEN Append(afterQ, [fn |-> t.fn, name |-> out])
    ELSE afterQ

\* the try block, mutated: add_fn(name) is called in the thread
thread_qtys_direct(h, t, out) ==
    IF out \in MappedNames /\ out \in DOMAIN h[t.fn.qtys]
    THEN [h EXCEPT ![t.fn.qtys][out] = @ + 1]
    ELSE h

\* the qtys dicts after the try block of thread t: add_fn is passed on to
\* root.after, never called by the thread, and nothing else refers to qtys
thread_qtys(h, t, out) == h

\* _capture_and_predict, the try block: capture_frame, model.predict, root.after
try_block(t) ==
    /\ t.pc = "capture"
    /\ \E out \in CaptureOutcomes :
         /\ out \in MappedNames => Len(afterQ) < MaxAfter
         /\ afterQ' = schedule(t, out)
         /\ last' = IF out \in MappedNames THEN NoStep
                    ELSE Step("capture", None,
                              IF out = UNKNOWN_NAME THEN "Unknown" ELSE out, None)
         /\ thr' = (thr (-) One(t))
                       (+) One(Thread(IF out \in MappedNames THEN "scheduled"
                                      ELSE "finally", t.fn))
         /\ heap' = thread_qtys(heap, t, out)
    /\ UNCHANGED cap_lock
    /\ UnchangedByThread

\* the try block, when it ends is not followed
CaptureAndPredict(t) == try_block(t) /\ UNCHANGED pin

\* the try block, time followed: no time has passed since a classification
\* that was scheduled
TimedCapture(t) ==
    /\ try_block(t)
    /\ pin' = [pin EXCEPT !.fresh = (afterQ' # afterQ)]

\* the finally block, mutated: the lock is left as it is
release_never(locked) == locked

\* "if cap_lock.locked(): cap_lock.release()"
release(locked) == IF locked THEN FALSE ELSE locked

\* _capture_and_predict, the finally block, entered from a return or an
\* exception ("finally") or from the end of the try block ("scheduled")
Finally(t) ==
    /\ t.pc \in {"finally", "scheduled"}
    /\ cap_lock' = release(cap_lock)
    /\ thr' = thr (-) One(t)
    /\ last' = NoStep
    /\ UNCHANGED <<afterQ, pin>>
    /\ UnchangedByThread
    /\ heap' = Collect(heap, Refs')

\* the main loop (or a message box's loop) runs the oldest root.after callback:
\* lambda: add_fn(name); an exception is printed by Tk, not shown
RunAfter ==
    /\ afterQ # <<>>
    /\ afterQ' = Tail(afterQ)
    /\ UNCHANGED <<menu_csv, now, tab, order_state, nSessions, nEdits,
                   gpio_btn, view, pin, cap_lock, thr, uiPc>>
    /\ LET cb == Head(afterQ)
           r == add_item(heap, files, cb.fn, cb.name)
       IN  /\ CanAdd(cb.fn, cb.name)
           /\ heap' = Collect(r.heap, Refs')
           /\ files' = r.files
           /\ last' = Step("after", cb.name, add_item_res(cb.fn, cb.name), None)

\* the wall clock reaches the next minute
Tick ==
    /\ now < MaxClock
    /\ now' = now + 1
    /\ last' = NoStep
    /\ UNCHANGED <<menu_csv, tab, order_state, heap, nSessions, nEdits, files,
                   gpio_btn, view, pin, cap_lock, thr, afterQ, uiPc>>

\* GPIO_BOUNCE_TIME passes
Elapse ==
    /\ pin.bouncing \/ pin.fresh
    /\ pin' = PinIdle
    /\ UNCHANGED <<menu_csv, now, tab, order_state, heap, nSessions, nEdits,
                   files, view, gpio_btn, cap_lock, thr, afterQ, uiPc, last>>

\* the handlers of the ORDER tab, the notebook and the clock
NextUI ==
    \/ start_session
    \/ finish_session
    \/ finish_session_end
    \/ \E n \in ItemNames : AddButton(n)
    \/ \E n \in ItemNames : SubButton(n)
    \/ upload_image
    \/ \E t \in {"ORDER", "ADMIN"} : SelectTab(t)

\* the sensor, the capture threads and the callbacks they schedule
NextSensor ==
    \/ on_blocked
    \/ \E t \in BagToSet(thr) : Acquire(t)
    \/ \E t \in BagToSet(thr) : CaptureAndPredict(t)
    \/ \E t \in BagToSet(thr) : Finally(t)
    \/ RunAfter

\* the buttons of the ADMIN tab
NextAdmin ==
    \/ \E n \in ItemNames, p \in Prices : add_row(n, p)
    \/ \E i \in 1..MaxRows, p \in Prices : edit_price(i, p)
    \/ \E i \in 1..MaxRows : delete_row(i)

Next == NextUI \/ NextSensor

NextClock == Next \/ Tick

NextMenu == NextUI \/ Tick \/ NextAdmin

\* the ORDER tab on a disk that can refuse a write
NextDisk == NextUI \/ \E n \in ItemNames, d \in {1, -1} : ButtonOSError(n, d)

\* one session, its sensor and its capture threads, time followed
NextTimed ==
    \/ start_session
    \/ DebouncedEdge
    \/ \E t \in BagToSet(thr) : Acquire(t)
    \/ \E t \in BagToSet(thr) : TimedCapture(t)
    \/ \E t \in BagToSet(thr) : Finally(t)
    \/ RunAfter
    \/ Elapse

\* one minute of the clock, the menu file as it is at the start
Spec == Init /\ [][Next]_vars

\* the clock advances
SpecClock == Init /\ [][NextClock]_vars

\* the clock advances and the menu is edited; the sensor stays silent
SpecAdmin == Init /\ [][NextMenu]_vars

\* the bill's directory can fail; the sensor stays silent
SpecDisk == Init /\ [][NextDisk]_vars

\* every capture call returns and every thread is scheduled: a thread inside
\* the try block reaches the finally block, a thread there runs it
SpecLive ==
    /\ Init /\ [][Next]_vars
    /\ WF_vars(\E t \in BagToSet(thr) : CaptureAndPredict(t))
    /\ WF_vars(\E t \in BagToSet(thr) : Finally(t))

\* the sensor with the time between its edges and the captures followed
SpecTimed == Init /\ [][NextTimed]_vars

\* ------------------------------------------------------------- claims
Active == order_state.active

\* the qtys dict and the bill of the session that is Active
Qtys == heap[order_state.qtys]

Bill == order_state.bill

RECURSIVE SumOver(_, _, _)
SumOver(q, menu, names) ==
    IF names = {} THEN 0
    ELSE LET n == CHOOSE m \in names : TRUE
         IN  q[n] * menu[n] + SumOver(q, menu, names \ {n})

\* what update_total shows: sum(qtys[n] * menu[n] for n in qtys)
OrderTotal == SumOver(Qtys, order_state.menu, DOMAIN Qtys)

\* every qtys dict that exists before and after a step holds the same values
DictsUnchanged == \A i \in DOMAIN heap \cap DOMAIN heap' : heap'[i] = heap[i]

HoldingThreads ==
    {t \in BagToSet(thr) : t.pc \in {"capture", "finally", "scheduled"}}

RECURSIVE Copies(_, _)
Copies(b, ts) ==
    IF ts = {} THEN 0
    ELSE LET t == CHOOSE u \in ts : TRUE
         IN  CopiesIn(t, b) + Copies(b, ts \ {t})

\* C1: while a session is Active, after each operation the total_line values of
\* its bill add up (bill_total) to the sum over the menu of quantity x price.
C1_BillTotalIsOrderTotal ==
    (Active /\ uiPc = "idle") => bill_total(files[Bill]) = OrderTotal

\* C2: every step that changes a quantity of the Active session appends exactly
\* one row to its bill, with the new quantity and quantity x price; this
\* includes the decrement from 1 to 0.
C2_ChangeAppendsOneRow ==
    [][(Active /\ uiPc = "idle" /\ order_state' = order_state)
          => \A n \in DOMAIN Qtys :
                Qtys'[n] # Qtys[n]
                   => files' = [files EXCEPT ![Bill] =
                         Append(@, Row(n, Qtys'[n], order_state.menu[n]))]]_vars

\* C3: "-" on an item whose quantity is 0 changes no quantity of any item and
\* no bill file.
C3_DecrementAtZeroIsNoOp ==
    [][\A n \in ItemNames :
          (SubButton(n) /\ Qtys[n] = 0)
             => /\ heap' = heap
                /\ files' = files
                /\ order_state' = order_state]_vars

C3_Witness ==
    /\ last.op = "sub_item" /\ last.res = "noop"
    /\ Active /\ Qtys[last.arg] = 0

\* C4: once finish_session has completed, a callback scheduled by a capture of
\* the closed session changes no qtys dict and no bill file.
C4_LateResultChangesNothing ==
    [][(/\ afterQ # <<>>
        /\ uiPc = "idle"
        /\ ~(Active /\ order_state.qtys = Head(afterQ).fn.qtys)
        /\ last'.op = "after")
          => (DictsUnchanged /\ files' = files)]_vars

\* C5: at most one capture thread is between claiming cap_lock and releasing it.
C5_AtMostOneCapture == Copies(thr, HoldingThreads) <= 1

C5_Witness ==
    /\ Copies(thr, HoldingThreads) = 1
    /\ \E t \in BagToSet(thr) : t.pc = "start"
    /\ cap_lock

\* C6: a thread that finds cap_lock held ends at once: nothing is scheduled, no
\* quantity and no bill changes, and cap_lock stays held; every other thread
\* stays where it is.
C6_BusyTriggerIsSkipped ==
    [][\A t \in BagToSet(thr) :
          (Acquire(t) /\ cap_lock)
             => /\ thr' = thr (-) One(t)
                /\ cap_lock'
                /\ afterQ' = afterQ
                /\ DictsUnchanged
                /\ files' = files
                /\ order_state' = order_state]_vars

C6_Witness ==
    /\ last.op = "acquire" /\ last.res = "skipped"
    /\ cap_lock
    /\ Copies(thr, HoldingThreads) = 1

\* C7: on the sensor path a capture without a frame, a prediction of
\* UNKNOWN_NAME and a callback for a name that is no key of the menu change no
\* quantity and no bill, and show no message box; the first two schedule nothing.
C7_SensorDiscardsSilently ==
    [][/\ (last'.op = "capture" /\ last'.res \in {"NoFrame", "Unknown"})
            => /\ afterQ' = afterQ
               /\ heap' = heap
               /\ files' = files
               /\ last'.dialog = None
       /\ (/\ afterQ # <<>>
           /\ last'.op = "after"
           /\ Head(afterQ).name \notin DOMAIN Head(afterQ).fn.menu)
            => /\ DictsUnchanged
               /\ files' = files
               /\ order_state' = order_state
               /\ last'.dialog = None]_vars

C7_Witness ==
    /\ last.op = "after" /\ last.res = "KeyError"
    /\ Active /\ last.arg \notin DOMAIN order_state.menu

\* C8: an upload predicted UNKNOWN_NAME, or a name that is no key of the menu,
\* shows an error and changes no quantity and no bill.
C8_UploadUnknownIsAnError ==
    [][(/\ last'.op = "upload_image"
        /\ last'.res # "unreadable"
        /\ \/ last'.arg = UNKNOWN_NAME
           \/ last'.arg \notin DOMAIN order_state.menu)
          => /\ last'.dialog \notin {None, "Added"}
             /\ heap' = heap
             /\ files' = files]_vars

\* C9: Start Session with an empty menu shows the "Empty menu" warning and
\* leaves order_state inactive, no qtys dict and no bill file made.
C9_EmptyMenuStartsNothing ==
    [][(start_session /\ DOMAIN load_menu = {})
          => /\ order_state' = Inactive
             /\ heap' = heap
             /\ files' = files
             /\ gpio_btn' = <<>>
             /\ last'.dialog = "Empty menu"]_vars

C9_Witness ==
    /\ last.op = "start_session" /\ last.res = "EmptyMenu"
    /\ ~Active /\ DOMAIN load_menu = {}
    /\ DOMAIN files = {}

\* C10: Finish Session renames the bill once, to the name that parses to the
\* session's start and the end time, with the rows it had; closing its message
\* box leaves order_state with "active": False alone and the files as they are.
C10_FinishSealsAndResets ==
    [][/\ finish_session
            => /\ Bill \in DOMAIN files
               /\ parse_bill_name(Bill).end = NoEnd
               /\ Bill \notin DOMAIN files'
               /\ \E sealed \in DOMAIN files' :
                    /\ parse_bill_name(sealed) =
                          [table |-> TABLE_ID, start |-> order_state.start,
                           end |-> now, date |-> TODAY]
                    /\ files'[sealed] = files[Bill]
                    /\ \A p \in DOMAIN files' \ {sealed} :
                          p \in DOMAIN files /\ files'[p] = files[p]
       /\ finish_session_end
            => /\ order_state' = Inactive
               /\ files' = files
               /\ gpio_btn' = <<>>
               /\ uiPc' = "idle" /\ tab' = "ORDER"]_vars

C10_Witness ==
    /\ last.op = "finish_session" /\ last.res = "ok"
    /\ ~Active
    /\ \E p \in DOMAIN files :
          /\ parse_bill_name(p).end # NoEnd
          /\ parse_bill_name(p).end # parse_bill_name(p).start
          /\ Len(files[p]) > 1

\* C11: when the append of a "+" or "-" fails, the quantities are what they were
\* before the button was pressed.
C11_FailedAppendRollsBack ==
    [][last'.res = "OSError" => heap' = heap]_vars

\* C12: a callback for a name of the menu, run while the session whose sensor
\* scheduled it is Active, does what the "+" button of the view on screen does:
\* the quantity goes up by one and one row with the new quantity is appended.
C12_ResultIsManualIncrement ==
    [][(/\ afterQ # <<>>
        /\ last'.op = "after"
        /\ uiPc = "idle"
        /\ Active
        /\ Head(afterQ).fn.qtys = order_state.qtys
        /\ Head(afterQ).name \in DOMAIN order_state.menu)
          => LET r == add_item(heap, files, ViewClosure, Head(afterQ).name)
             IN  heap' = r.heap /\ files' = r.files]_vars

\* C13: every row of every bill file is, after every step, still a row of that
\* file at the same position with the same fields; the file of the Active
\* session is the one Finish Session renames, every other file keeps its name.
C13_RowsAreImmutable ==
    [][\A p \in DOMAIN files :
          LET q == IF uiPc = "idle" /\ uiPc' = "finish_dialog" /\ p = Bill
                   THEN sealed_name(Bill, now)
                   ELSE p
          IN  /\ q \in DOMAIN files'
              /\ Len(files'[q]) >= Len(files[p])
              /\ SubSeq(files'[q], 1, Len(files[p])) = files[p]]_vars

\* the scenario of C14: the menu, and the session after each of its operations
MenuAB == [n \in {"A", "B"} |-> IF n = "A" THEN 10 ELSE 20]

ScenarioSession(qa, qb, rows) ==
    /\ Active /\ uiPc = "idle"
    /\ order_state.menu = MenuAB
    /\ Qtys = [n \in {"A", "B"} |-> IF n = "A" THEN qa ELSE qb]
    /\ Bill \in DOMAIN files
    /\ files[Bill] = <<HEADER>> \o rows

ScenarioStarted == ScenarioSession(0, 0, <<>>)

ScenarioAfterA == ScenarioSession(1, 0, <<Row("A", 1, 10)>>)

ScenarioAfterB == ScenarioSession(1, 1, <<Row("A", 1, 10), Row("B", 1, 20)>>)

\* the steps of a capture thread and of the sensor, the callback excluded
ThreadStep ==
    \/ on_blocked
    \/ \E t \in BagToSet(thr) : Acquire(t) \/ CaptureAndPredict(t) \/ Finally(t)

\* C14: with the menu {A: 10, B: 20}: Start Session gives quantities 0 and a
\* bill with the header; "+" on A then gives {A: 1, B: 0} and the row
\* (A,1,10,10); a sensor capture classified B, applied through the view that
\* bound the sensor, then gives {A: 1, B: 1} and the rows (A,1,10,10),
\* (B,1,20,20) in that order; Finish Session then leaves exactly these rows
\* under a name that parses to the start and the end time, with bill_total 30.
C14_ScenarioTotalIs30 ==
    [][/\ (start_session /\ load_menu = MenuAB) => ScenarioStarted'
       /\ (ScenarioStarted /\ AddButton("A")) => ScenarioAfterA'
       /\ (ScenarioAfterA /\ ThreadStep) => ScenarioAfterA'
       /\ (/\ ScenarioAfterA
           /\ afterQ # <<>> /\ last'.op = "after"
           /\ Head(afterQ) = [fn |-> ViewClosure, name |-> "B"])
            => ScenarioAfterB'
       /\ (ScenarioAfterB /\ finish_session)
            => /\ Qtys' = [n \in {"A", "B"} |-> 1]
               /\ Bill \notin DOMAIN files'
               /\ \E sealed \in DOMAIN files' :
                    /\ parse_bill_name(sealed).start = order_state.start
                    /\ parse_bill_name(sealed).end = now
                    /\ files'[sealed] =
                          <<HEADER, Row("A", 1, 10), Row("B", 1, 20)>>
                    /\ bill_total(files'[sealed]) = 30]_vars

C14_Witness ==
    /\ last.op = "finish_session" /\ last.res = "renamed"
    /\ Qtys = [n \in {"A", "B"} |-> 1]
    /\ \E sealed \in DOMAIN files :
          /\ parse_bill_name(sealed).start = order_state.start
          /\ parse_bill_name(sealed).end = now
          /\ now # order_state.start
          /\ files[sealed] = <<HEADER, Row("A", 1, 10), Row("B", 1, 20)>>
          /\ bill_total(files[sealed]) = 30

\* C15: cap_lock is held exactly while one thread is in the try or the finally
\* block, whatever the capture ended in; and a held cap_lock is free again
\* later, so that a new thread can take it.
C15_LockIsReleased ==
    /\ [](cap_lock <=> Copies(thr, HoldingThreads) = 1)
    /\ (cap_lock ~> ~cap_lock)

\* a thread took cap_lock, scheduled its result and ended: the lock is free
\* while the callback still waits
C15_Witness ==
    /\ ~cap_lock
    /\ afterQ # <<>>
    /\ BagToSet(thr) = {}

\* C16: the callback of a capture runs only after the thread that scheduled it
\* has released cap_lock.  With one callback waiting, a thread that is past
\* root.after and before the finally block is the one that scheduled it.
C16_ReleaseBeforeApply ==
    [][(afterQ # <<>> /\ Len(afterQ) = 1 /\ last'.op = "after")
          => ~\E t \in BagToSet(thr) : t.pc = "scheduled"]_vars

\* a step of the Tk main loop that writes quantities or bills
MutatingStep ==
    \/ \E n \in ItemNames : AddButton(n) \/ SubButton(n)
    \/ upload_image
    \/ RunAfter
    \/ start_session
    \/ finish_session

\* C17: no step of the sensor callback or of a capture thread changes a
\* quantity or a bill; every step that does is one handler or callback of the
\* Tk main loop, which runs it to its end before the next one.
C17_OnlyMainLoopMutates ==
    [][/\ ThreadStep => (DictsUnchanged /\ files' = files
                            /\ order_state' = order_state)
       /\ (~DictsUnchanged \/ files' # files) => MutatingStep]_vars

C17_Witness ==
    /\ last.op = "after" /\ last.res = "ok"
    /\ \E t \in BagToSet(thr) : t.pc \in {"capture", "scheduled"}
    /\ Active /\ Qtys[last.arg] = 1
    /\ Len(files[Bill]) = 2

\* C18: while a session is Active its qtys dict has exactly the keys of its
\* menu and every quantity is a natural number.
C18_KeysAndNonNegative ==
    Active => /\ DOMAIN Qtys = DOMAIN order_state.menu
              /\ \A n \in DOMAIN Qtys : Qtys[n] \in Nat

C18_Witness ==
    /\ last.op \in {"after", "upload_image"} /\ last.res = "KeyError"
    /\ Active /\ last.arg \notin DOMAIN Qtys
    /\ \E n \in DOMAIN Qtys : Qtys[n] = 1

\* C19: Start Session runs only when no session is Active, so the menu, the
\* qtys dict and the bill of an Active session are only ever dropped by Finish
\* Session, never replaced by those of another session.
C19_StartOnlyWhenInactive ==
    [][/\ start_session => ~Active
       /\ Active => (order_state' = order_state \/ order_state' = Inactive)]_vars

C19_Witness ==
    /\ Active /\ nSessions = 2
    /\ view = "session"
    /\ DOMAIN heap = {2}

\* C20: an edit of data/menu.csv changes nothing of the session; the menu of a
\* session is the one loaded by its Start Session and stays that; every row
\* appended to the bill carries an item and the unit price of that menu,
\* whatever data/menu.csv holds by then.
C20_MenuIsSnapshot ==
    [][/\ menu_csv' # menu_csv
            => (order_state' = order_state /\ heap' = heap /\ files' = files)
       /\ (start_session /\ Active') => order_state'.menu = load_menu
       /\ (Active /\ Active') => order_state'.menu = order_state.menu
       /\ (/\ Active /\ uiPc = "idle"
           /\ Bill \in DOMAIN files /\ Bill \in DOMAIN files'
           /\ Len(files'[Bill]) > Len(files[Bill]))
            => LET r == files'[Bill][Len(files'[Bill])]
               IN  /\ r.item \in DOMAIN order_state.menu
                   /\ r.unit_price = order_state.menu[r.item]]_vars

C20_Witness ==
    /\ Active /\ tab = "ORDER" /\ nEdits > 0
    /\ uiPc = "idle" /\ Bill \in DOMAIN files
    /\ Len(files[Bill]) > 1
    /\ LET r == files[Bill][Len(files[Bill])]
       IN  /\ r.unit_price = order_state.menu[r.item]
           /\ (r.item \notin DOMAIN load_menu
                 \/ load_menu[r.item] # r.unit_price)

\* C21: while no time has passed since a capture was classified, an edge of
\* the sensor starts no capture thread, also when cap_lock is free.
C21_QuietAfterClassified ==
    [][(BagCardinality(thr') > BagCardinality(thr) /\ ~cap_lock)
          => ~pin.fresh]_vars

\* C22: a callback scheduled for the add_item of a session that is finished,
\* run while a later session is Active, changes neither the qtys dict nor
\* order_state of the later session nor any bill file, also when both
\* sessions' bills were created under the same name.
C22_OldResultSparesNewSession ==
    [][(/\ afterQ # <<>>
        /\ last'.op = "after"
        /\ Active
        /\ Head(afterQ).fn.qtys # order_state.qtys)
          => /\ Qtys' = Qtys
             /\ order_state' = order_state
             /\ files' = files]_vars

C22_Witness ==
    /\ last.op = "after" /\ last.res = "TclError"
    /\ Active /\ nSessions = 2 /\ uiPc = "idle"
    /\ Qtys[last.arg] = 0
    /\ Bill = <<TABLE_ID, 0, TODAY>>
    /\ \E p \in DOMAIN files : parse_bill_name(p).end = 0

====
